---------------------------- MODULE Spec2Model ----------------------------
(***************************************************************************)
(* A model of asset_packer.py: the monochrome bitmap codec                 *)
(* (convert_to_bm / recover_png_from_bm), the font extractor (pack_font),  *)
(* the animated-icon packer (pack_icon_animated), the pack orchestrator    *)
(* (pack_specific) and the scaffold generator (create_asset_pack).         *)
(*                                                                         *)
(* Each part of the program has its own specification over its own group   *)
(* of variables; the variables of the other groups stay at their initial   *)
(* values.                                                                 *)
(***************************************************************************)
EXTENDS Integers, Sequences, FiniteSets, TLC

VARIABLES
    \* ---- bitmap codec ----
    img,        \* the 1-bit raster handed to convert_to_bm: [w, h, px]
    bm,         \* the bytes of the .bm (result of convert_to_bm, then as stored)
    rec,        \* result of recover_png_from_bm: [kind, px]
    cpc,        \* "input" -> "encoded" -> "decoded"
    tamper,     \* what happened to the stored bytes: "none" | "trunc" | "ext"
    \* ---- pack_font on a .c source ----
    fontSrc,    \* the .c file: [hasStart, hasEnd, lines]
    fontOut,    \* [kind, bytes]: "none", "written" (the .u8f) or "error"
    fpc,        \* "input" -> "done"
    \* ---- create_asset_pack ----
    name,       \* the requested pack name, a sequence of characters
    fsBefore,   \* the paths under output_directory before the call
    fs,         \* the paths under output_directory
    nlog,       \* the messages given to the logger
    npc,        \* "input" -> "done"
    \* ---- pack_icon_animated ----
    iconSrc,    \* the files of the source directory
    iconDst,    \* the destination directory: file name -> bytes
    todo,       \* the sorted files the loop has not visited yet
    frame_count,
    frame_rate, \* <<>> for None, <<n>> for the integer n
    size,       \* <<>> for None, <<w, h>>
    ipc,        \* "input" -> "loop" -> "done"
    \* ---- pack_specific ----
    srcPack,    \* the source pack: [isDir, files, ai]
    packedKind, \* what output_directory/<pack name> is: "absent", "file", "dir"
    packedFiles, \* the files below it: path -> bytes
    packedDirs, \* the directories below it
    plog,       \* the messages given to the logger
    ppc,        \* "start" -> "remove" -> "pack" -> "done" | "crashed"
    pending,    \* the loop entries discovered and not yet handled
    sched,      \* "code": the order of the loops; "any": any order
    run,        \* "first" or "second" run on the same source
    preOut,     \* the files when the run started
    rmOut,      \* the files the stale-output removal left
    rmFailed,   \* the removal of this run failed
    tree1,      \* the tree the first run left
    writers     \* path -> the entries that wrote it in this run

codecVars == <<img, bm, rec, cpc, tamper>>
fontVars == <<fontSrc, fontOut, fpc>>
nameVars == <<name, fsBefore, fs, nlog, npc>>
iconVars == <<iconSrc, iconDst, todo, frame_count, frame_rate, size, ipc>>

packVars == <<srcPack, packedKind, packedFiles, packedDirs, plog, ppc, pending, sched,
              run, preOut, rmOut, rmFailed, tree1, writers>>

vars == <<codecVars, fontVars, nameVars, iconVars, packVars>>

-----------------------------------------------------------------------------
(* Bounds of the model *)

MaxW == 9
MaxH == 5
MaxFontLines == 2
MaxLineLen == 4
MaxNameLen == 3
NumFrames == 3

(* Program constants *)

WindowSz2 == 8
LookaheadSz2 == 4

-----------------------------------------------------------------------------
(* Generic helpers *)

Min(a, b) == IF a < b THEN a ELSE b

RECURSIVE Pow2(_)
Pow2(n) == IF n = 0 THEN 1 ELSE 2 * Pow2(n - 1)

RECURSIVE Flatten(_)
Flatten(ss) == IF ss = <<>> THEN <<>> ELSE Head(ss) \o Flatten(Tail(ss))

\* bit k (0 = least significant) of a byte
BitOf(byte, k) == (byte \div Pow2(k)) % 2

-----------------------------------------------------------------------------
(* PIL: img.convert("1"), ImageOps.invert, save as XBM (lines 82-85).       *)
(* A pixel is 0 (black) or 1 (white, any non-zero value).  The XBM encoder  *)
(* packs each row on its own, least significant bit first, a set bit for a  *)
(* non-zero pixel, and pads the last byte of the row with zero bits.        *)

RowBytes(w) == (w + 7) \div 8

Invert(p) == 1 - p

PackRowByte(row, w, j) ==
    LET col(k) == 8 * (j - 1) + k + 1
        bit(k) == IF col(k) <= w THEN Invert(row[col(k)]) ELSE 0
    IN  bit(0) + 2 * bit(1) + 4 * bit(2) + 8 * bit(3)
        + 16 * bit(4) + 32 * bit(5) + 64 * bit(6) + 128 * bit(7)

PackRow(row, w) == [j \in 1..RowBytes(w) |-> PackRowByte(row, w, j)]

XbmBytes(image) == Flatten([y \in 1..image.h |-> PackRow(image.px[y], image.w)])

\* the XBM text carries every byte as 0xHL; lines 87-90 cut the hex digits
\* out of the text and bytearray.fromhex reads them back
HexPair(byte) == <<byte \div 16, byte % 16>>
FromHex(pair) == 16 * pair[1] + pair[2]
XbmText(bytes) == [i \in 1..Len(bytes) |-> HexPair(bytes[i])]
DataBin(image) == LET txt == XbmText(XbmBytes(image))
                  IN  [i \in 1..Len(txt) |-> FromHex(txt[i])]

-----------------------------------------------------------------------------
(* heatshrink2.compress / decompress with window_sz2=8, lookahead_sz2=4     *)
(* (lines 93 and 123): LZSS over a zero-initialised window.  A literal is   *)
(* the tag bit 1 and the byte; a back-reference is the tag bit 0, the       *)
(* offset-1 in window_sz2 bits and the length-1 in lookahead_sz2 bits; bits *)
(* are written most significant first and the last byte is zero padded.     *)

Window == Pow2(WindowSz2)
Lookahead == Pow2(LookaheadSz2)
BreakEven == (1 + WindowSz2 + LookaheadSz2) \div 8

\* the byte at position j of the encoder buffer: zero before the input
Buf(data, j) == IF j < 1 THEN 0 ELSE data[j]

RECURSIVE MatchLen(_, _, _, _, _)
MatchLen(data, i, d, len, maxlen) ==
    IF len < maxlen /\ Buf(data, i - d + len) = data[i + len]
    THEN MatchLen(data, i, d, len + 1, maxlen)
    ELSE len

\* find_longest_match: the nearest offset of the longest match
LongestMatch(data, i) ==
    LET maxlen == Min(Lookahead, Len(data) - i + 1)
        offs   == 1..Min(Window, i - 1 + Lookahead)
        lenOf  == [d \in offs |-> MatchLen(data, i, d, 0, maxlen)]
        best   == CHOOSE l \in {lenOf[d] : d \in offs} :
                      \A d \in offs : lenOf[d] <= l
        near   == CHOOSE d \in offs :
                      lenOf[d] = best /\ \A e \in offs : lenOf[e] = best => d <= e
    IN  [len |-> best, off |-> near]

\* n as `width` bits, most significant first
RECURSIVE BitsMsb(_, _)
BitsMsb(n, width) ==
    IF width = 0 THEN <<>>
    ELSE <<(n \div Pow2(width - 1)) % 2>> \o BitsMsb(n % Pow2(width - 1), width - 1)

RECURSIVE HsEncodeBits(_, _)
HsEncodeBits(data, i) ==
    IF i > Len(data) THEN <<>>
    ELSE LET m == LongestMatch(data, i)
         IN  IF m.len > BreakEven
             THEN <<0>> \o BitsMsb(m.off - 1, WindowSz2)
                        \o BitsMsb(m.len - 1, LookaheadSz2)
                        \o HsEncodeBits(data, i + m.len)
             ELSE <<1>> \o BitsMsb(data[i], 8) \o HsEncodeBits(data, i + 1)

RECURSIVE ValMsb(_)
ValMsb(bits) ==
    IF bits = <<>> THEN 0
    ELSE Head(bits) * Pow2(Len(bits) - 1) + ValMsb(Tail(bits))

BitsToBytes(bits) ==
    LET n == (Len(bits) + 7) \div 8
        at(k) == IF k <= Len(bits) THEN bits[k] ELSE 0
    IN  [j \in 1..n |-> ValMsb([k \in 1..8 |-> at(8 * (j - 1) + k)])]

HsCompress(data) == BitsToBytes(HsEncodeBits(data, 1))

BytesToBits(bytes) == Flatten([j \in 1..Len(bytes) |-> BitsMsb(bytes[j], 8)])

RECURSIVE HsCopy(_, _, _)
HsCopy(out, off, n) ==
    IF n = 0 THEN out
    ELSE HsCopy(Append(out, Buf(out, Len(out) + 1 - off)), off, n - 1)

\* the decoder stops where the input ends inside a token
RECURSIVE HsDecodeBits(_, _)
HsDecodeBits(bits, out) ==
    IF bits = <<>> THEN out
    ELSE IF Head(bits) = 1
         THEN IF Len(bits) < 9 THEN out
              ELSE HsDecodeBits(SubSeq(bits, 10, Len(bits)),
                                Append(out, ValMsb(SubSeq(bits, 2, 9))))
         ELSE IF Len(bits) < 1 + WindowSz2 + LookaheadSz2 THEN out
              ELSE LET off == ValMsb(SubSeq(bits, 2, 1 + WindowSz2)) + 1
                       n   == ValMsb(SubSeq(bits, 2 + WindowSz2,
                                            1 + WindowSz2 + LookaheadSz2)) + 1
                   IN  HsDecodeBits(SubSeq(bits, 2 + WindowSz2 + LookaheadSz2, Len(bits)),
                                    HsCopy(out, off, n))

HsDecompress(bytes) == HsDecodeBits(BytesToBits(bytes), <<>>)

-----------------------------------------------------------------------------
(* convert_to_bm (lines 76-101) *)

U16LE(n) == <<n % 256, n \div 256>>

\* a variant that compares without the bytes of the length prefix
convert_to_bm_shortcount(image) ==
    LET data_bin == DataBin(image)
        c        == HsCompress(data_bin)
        data_enc == U16LE(Len(c)) \o c
    IN  IF Len(c) + 2 < Len(data_bin) + 1
        THEN <<1, 0>> \o data_enc
        ELSE <<0>> \o data_bin

convert_to_bm(image) ==
    LET data_bin == DataBin(image)
        c        == HsCompress(data_bin)
        data_enc == U16LE(Len(c)) \o c
    IN  IF Len(data_enc) + 2 < Len(data_bin) + 1
        THEN <<1, 0>> \o data_enc
        ELSE <<0>> \o data_bin

(* recover_png_from_bm (lines 114-130) *)

StartsCompressed(b) == Len(b) >= 2 /\ b[1] = 1 /\ b[2] = 0

DataDec(b) ==
    IF StartsCompressed(b)
    THEN HsDecompress(SubSeq(b, 5, Len(b)))
    ELSE SubSeq(b, 2, Len(b))

\* line 128: one value per bit, least significant bit first, polarity inverted
PutValues(data_dec) ==
    Flatten([j \in 1..Len(data_dec) |-> [k \in 1..8 |-> 1 - BitOf(data_dec[j], k - 1)]])

\* Image.new("1", (w, h)) is all 0; putdata fills it row-major from the flat
\* list and raises "too many data entries" for a list longer than w*h
recover_png_from_bm(b, w, h) ==
    LET vals == PutValues(DataDec(b))
    IN  IF Len(vals) > w * h
        THEN [kind |-> "error", px |-> <<>>]
        ELSE [kind |-> "image",
              px |-> [y \in 1..h |-> [x \in 1..w |->
                        IF (y - 1) * w + x <= Len(vals)
                        THEN vals[(y - 1) * w + x] ELSE 0]]]

-----------------------------------------------------------------------------
(* The codec's inputs: rasters of every width 1..MaxW and height 1..MaxH    *)
(* whose rows are all white, all black, or striped.                         *)

RowKinds == {"white", "black", "stripe"}

RowOf(kind, w) ==
    [x \in 1..w |-> CASE kind = "white"  -> 1
                      [] kind = "black"  -> 0
                      [] kind = "stripe" -> x % 2]

Rasters ==
    UNION { UNION { { [w |-> w, h |-> h, px |-> [y \in 1..h |-> RowOf(ks[y], w)]]
                      : ks \in [1..h -> RowKinds] }
                    : h \in 1..MaxH }
            : w \in 1..MaxW }

NoImage == [kind |-> "none", px |-> <<>>]

CodecIdle ==
    /\ img = [w |-> 1, h |-> 1, px |-> <<<<1>>>>]
    /\ bm = <<>>
    /\ rec = NoImage
    /\ cpc = "input"
    /\ tamper = "none"

FontIdle ==
    /\ fontSrc = [hasStart |-> TRUE, hasEnd |-> TRUE, lines |-> <<>>]
    /\ fontOut = [kind |-> "none", bytes |-> <<>>]
    /\ fpc = "input"

NameIdle ==
    /\ name = <<"a">>
    /\ fsBefore = {}
    /\ fs = {}
    /\ nlog = {}
    /\ npc = "input"

IconIdle ==
    /\ iconSrc = {}
    /\ iconDst = <<>>
    /\ todo = <<>>
    /\ frame_count = 0
    /\ frame_rate = <<>>
    /\ size = <<>>
    /\ ipc = "input"

PackIdle ==
    /\ srcPack = [isDir |-> FALSE, files |-> {}, ai |-> {}]
    /\ packedKind = "absent"
    /\ packedFiles = <<>>
    /\ packedDirs = {}
    /\ plog = {}
    /\ ppc = "start"
    /\ pending = {}
    /\ sched = "code"
    /\ run = "first"
    /\ preOut = <<>>
    /\ rmOut = <<>>
    /\ rmFailed = FALSE
    /\ tree1 = <<>>
    /\ writers = <<>>

InitCodec ==
    /\ img \in Rasters
    /\ bm = <<>>
    /\ rec = NoImage
    /\ cpc = "input"
    /\ tamper = "none"
    /\ FontIdle /\ NameIdle /\ IconIdle /\ PackIdle

Encode ==
    /\ cpc = "input"
    /\ bm' = convert_to_bm(img)
    /\ cpc' = "encoded"
    /\ UNCHANGED <<img, rec, tamper, fontVars, nameVars, iconVars, packVars>>

\* the stored file loses its last byte
Truncate ==
    /\ cpc = "encoded" /\ tamper = "none" /\ Len(bm) >= 2
    /\ bm' = SubSeq(bm, 1, Len(bm) - 1)
    /\ tamper' = "trunc"
    /\ UNCHANGED <<img, rec, cpc, fontVars, nameVars, iconVars, packVars>>

\* the stored file gains a byte
Extend ==
    /\ cpc = "encoded" /\ tamper = "none"
    /\ bm' = Append(bm, 0)
    /\ tamper' = "ext"
    /\ UNCHANGED <<img, rec, cpc, fontVars, nameVars, iconVars, packVars>>

Decode ==
    /\ cpc = "encoded"
    /\ rec' = recover_png_from_bm(bm, img.w, img.h)
    /\ cpc' = "decoded"
    /\ UNCHANGED <<img, bm, tamper, fontVars, nameVars, iconVars, packVars>>

NextCodec == Encode \/ Truncate \/ Extend \/ Decode

SpecCodec == InitCodec /\ [][NextCodec]_vars

-----------------------------------------------------------------------------
(* pack_font on a .c source (lines 224-239).                                *)
(* A source is the text up to the start marker ' U8G2_FONT_SECTION("', the  *)
(* rest of the declaration up to '") =', and the lines after it.  A line is *)
(* a sequence of the characters "Q" (the double quote), "B" (the backslash) *)
(* and "1" (the digit).                                                     *)

FontChars == {"Q", "B", "1"}

ByteOfChar(c) == CASE c = "Q" -> 34 [] c = "B" -> 92 [] c = "1" -> 49

RECURSIVE CountChar(_, _)
CountChar(line, c) ==
    IF line = <<>> THEN 0
    ELSE (IF Head(line) = c THEN 1 ELSE 0) + CountChar(Tail(line), c)

\* line.find(b'"') and line.rfind(b'"'), as 1-based positions
Find(line, c) == CHOOSE i \in 1..Len(line) :
                     line[i] = c /\ \A j \in 1..(i - 1) : line[j] # c
RFind(line, c) == CHOOSE i \in 1..Len(line) :
                     line[i] = c /\ \A j \in (i + 1)..Len(line) : line[j] # c

\* the octal digits (at most three) that open the text
OctalRun(text) ==
    IF Len(text) >= 3 /\ text[1] = "1" /\ text[2] = "1" /\ text[3] = "1" THEN 3
    ELSE IF Len(text) >= 2 /\ text[1] = "1" /\ text[2] = "1" THEN 2
    ELSE IF Len(text) >= 1 /\ text[1] = "1" THEN 1
    ELSE 0

OctalValue(n) == CASE n = 1 -> 1 [] n = 2 -> 9 [] n = 3 -> 73

\* .decode("unicode_escape").encode("latin_1"): [ok, bytes]; a backslash
\* that ends the text raises
RECURSIVE DecodeEscapes(_)
DecodeEscapes(text) ==
    IF text = <<>> THEN [ok |-> TRUE, bytes |-> <<>>]
    ELSE IF Head(text) # "B"
    THEN LET r == DecodeEscapes(Tail(text))
         IN  [ok |-> r.ok, bytes |-> <<ByteOfChar(Head(text))>> \o r.bytes]
    ELSE IF Len(text) = 1 THEN [ok |-> FALSE, bytes |-> <<>>]
    ELSE IF text[2] = "1"
    THEN LET n == OctalRun(Tail(text))
             r == DecodeEscapes(SubSeq(text, n + 2, Len(text)))
         IN  [ok |-> r.ok, bytes |-> <<OctalValue(n)>> \o r.bytes]
    ELSE LET r == DecodeEscapes(SubSeq(text, 3, Len(text)))
         IN  [ok |-> r.ok, bytes |-> <<ByteOfChar(text[2])>> \o r.bytes]

\* lines 231-237: the loop over the lines of the table
RECURSIVE FontLoop(_)
FontLoop(lines) ==
    IF lines = <<>> THEN [ok |-> TRUE, bytes |-> <<>>]
    ELSE LET line == Head(lines)
             rest == FontLoop(Tail(lines))
         IN  IF CountChar(line, "Q") = 2
             THEN LET d == DecodeEscapes(SubSeq(line, Find(line, "Q") + 1,
                                                RFind(line, "Q") - 1))
                  IN  [ok |-> d.ok /\ rest.ok, bytes |-> d.bytes \o rest.bytes]
             ELSE rest

\* split(...)[1] raises when a marker is absent
pack_font(src) ==
    IF ~src.hasStart \/ ~src.hasEnd THEN [kind |-> "error", bytes |-> <<>>]
    ELSE LET font == FontLoop(src.lines)
         IN  IF font.ok
             THEN [kind |-> "written", bytes |-> font.bytes \o <<0>>]
             ELSE [kind |-> "error", bytes |-> <<>>]

RECURSIVE SeqsUpTo(_, _)
SeqsUpTo(S, n) ==
    IF n = 0 THEN {<<>>}
    ELSE LET shorter == SeqsUpTo(S, n - 1)
         IN  shorter \cup {Append(q, x) : q \in shorter, x \in S}

FontLines == SeqsUpTo(FontChars, MaxLineLen)

InitFont ==
    /\ fontSrc \in [hasStart : BOOLEAN, hasEnd : BOOLEAN,
                    lines : SeqsUpTo(FontLines, MaxFontLines)]
    /\ fontOut = [kind |-> "none", bytes |-> <<>>]
    /\ fpc = "input"
    /\ CodecIdle /\ NameIdle /\ IconIdle /\ PackIdle

PackFont ==
    /\ fpc = "input"
    /\ fontOut' = pack_font(fontSrc)
    /\ fpc' = "done"
    /\ UNCHANGED <<fontSrc, codecVars, nameVars, iconVars, packVars>>

NextFont == PackFont

SpecFont == InitFont /\ [][NextFont]_vars

-----------------------------------------------------------------------------
(* create_asset_pack (lines 391-418) *)

NameChars == {"a", "0", "_", "-", " ", "/", ":", "\n"}
LegalChars == {"a", "0", "_", "-", " "}

AllLegal(s) == \A i \in 1..Len(s) : s[i] \in LegalChars

\* re.match(r"^[a-zA-Z0-9_\- ]+$", name): $ matches at the end of the string
\* and also just before a line break that ends it
RegexMatches(s) ==
    \/ Len(s) >= 1 /\ AllLegal(s)
    \/ Len(s) >= 2 /\ s[Len(s)] = "\n" /\ AllLegal(SubSeq(s, 1, Len(s) - 1))

\* the directories and files of a new pack, as paths below output_directory
Scaffold(s) ==
    { <<s>>, <<s, "Anims">>, <<s, "Icons">>, <<s, "Fonts">>,
      <<s, "Anims", "manifest.txt">>, <<s, "Anims", "example_anim">>,
      <<s, "Anims", "example_anim", "meta.txt">> }

InitName ==
    /\ name \in SeqsUpTo(NameChars, MaxNameLen)
    /\ fsBefore \in {{}, {<<name>>}}
    /\ fs = fsBefore
    /\ nlog = {}
    /\ npc = "input"
    /\ CodecIdle /\ FontIdle /\ IconIdle /\ PackIdle

RejectName ==
    /\ npc = "input"
    /\ ~RegexMatches(name)
    /\ nlog' = nlog \cup {"Error: contains illegal characters"}
    /\ npc' = "done"
    /\ UNCHANGED <<name, fsBefore, fs, codecVars, fontVars, iconVars, packVars>>

RejectExisting ==
    /\ npc = "input"
    /\ RegexMatches(name)
    /\ <<name>> \in fs
    /\ nlog' = nlog \cup {"Error: already exists"}
    /\ npc' = "done"
    /\ UNCHANGED <<name, fsBefore, fs, codecVars, fontVars, iconVars, packVars>>

CreatePack ==
    /\ npc = "input"
    /\ RegexMatches(name)
    /\ <<name>> \notin fs
    /\ fs' = fs \cup Scaffold(name)
    /\ nlog' = nlog \cup {"Created asset pack"}
    /\ npc' = "done"
    /\ UNCHANGED <<name, fsBefore, codecVars, fontVars, iconVars, packVars>>

NextName == RejectName \/ RejectExisting \/ CreatePack

SpecName == InitName /\ [][NextName]_vars

-----------------------------------------------------------------------------
(* pack_icon_animated (lines 185-212).                                      *)
(* A file of the source directory is [kind, stem, ext]: the marker files    *)
(* "frame_rate" and "meta", and the files frame_<stem>.<ext>.               *)

Stems == 0..(NumFrames - 1)

FrameFile(s, e) == [kind |-> "file", stem |-> s, ext |-> e]
FrameRateFile == [kind |-> "frame_rate", stem |-> 0, ext |-> ""]
MetaFile == [kind |-> "meta", stem |-> 0, ext |-> ""]

IconFiles ==
    {FrameFile(s, e) : s \in Stems, e \in {"png", "bm"}}
        \cup {FrameFile(0, "txt"), FrameRateFile, MetaFile}

\* the place of a file name in the order of sorted(files, key=name):
\* frame_<s>.bm < frame_<s>.png < frame_<s>.txt < frame_<s+1>.bm,
\* and frame_<digits> < frame_rate < meta
ExtRank(e) == CASE e = "bm" -> 0 [] e = "png" -> 1 [] e = "txt" -> 2 [] OTHER -> 0
NameKey(f) ==
    CASE f.kind = "file"       -> 3 * f.stem + ExtRank(f.ext)
      [] f.kind = "frame_rate" -> 3 * NumFrames
      [] f.kind = "meta"       -> 3 * NumFrames + 1

RECURSIVE SortedByName(_)
SortedByName(files) ==
    IF files = {} THEN <<>>
    ELSE LET first == CHOOSE f \in files : \A g \in files : NameKey(f) <= NameKey(g)
         IN  <<first>> \o SortedByName(files \ {first})

\* the contents of the source files
PngOf(s) == [w |-> 8, h |-> s + 1, px |-> [y \in 1..(s + 1) |-> RowOf("black", 8)]]
BmOf(s) == <<0, s>>
FrameRateText == <<"1", "2", "\n">>
MetaBytes == <<77>>

DigitChars == <<"0", "1", "2", "3", "4", "5", "6", "7", "8", "9">>
DigitValue(c) == CHOOSE d \in 0..9 : DigitChars[d + 1] = c

\* int(text.strip()) of a text of digits that ends in a line break
RECURSIVE ParseInt(_, _)
ParseInt(text, acc) ==
    IF text = <<>> \/ Head(text) = "\n" THEN acc
    ELSE ParseInt(Tail(text), 10 * acc + DigitValue(Head(text)))

\* f"frame_{n:02}.bm"
FrameName(n) ==
    <<"frame_", DigitChars[((n \div 10) % 10) + 1], DigitChars[(n % 10) + 1], ".bm">>
MetaName == <<"meta">>

U32LE(n) == <<n % 256, (n \div 256) % 256, (n \div 65536) % 256, (n \div 16777216) % 256>>

\* write_bytes / copyfile: the file is created or replaced
WriteFile(dir, fname, bytes) ==
    [n \in (DOMAIN dir) \cup {fname} |-> IF n = fname THEN bytes ELSE dir[n]]

\* one pass of the loop body (lines 194-210) over the state
\* [dst, frame_count, frame_rate, size]; a variant that copies a .bm without
\* looking for its .png sibling comes first
IconStep_nosibling(st, frame, files) ==
    CASE frame.kind = "frame_rate" ->
            [st EXCEPT !.frame_rate = <<ParseInt(FrameRateText, 0)>>]
      [] frame.kind = "meta" ->
            [st EXCEPT !.dst = WriteFile(st.dst, MetaName, MetaBytes)]
      [] frame.kind = "file" /\ frame.ext = "png" ->
            [st EXCEPT !.dst = WriteFile(st.dst, FrameName(st.frame_count),
                                         convert_to_bm(PngOf(frame.stem))),
                       !.size = IF st.size = <<>>
                                THEN <<PngOf(frame.stem).w, PngOf(frame.stem).h>>
                                ELSE st.size,
                       !.frame_count = st.frame_count + 1]
      [] frame.kind = "file" /\ frame.ext = "bm" ->
            [st EXCEPT !.dst = WriteFile(st.dst, FrameName(st.frame_count),
                                         BmOf(frame.stem)),
                       !.frame_count = st.frame_count + 1]
      [] OTHER -> st

IconStep(st, frame, files) ==
    CASE frame.kind = "frame_rate" ->
            [st EXCEPT !.frame_rate = <<ParseInt(FrameRateText, 0)>>]
      [] frame.kind = "meta" ->
            [st EXCEPT !.dst = WriteFile(st.dst, MetaName, MetaBytes)]
      [] frame.kind = "file" /\ frame.ext = "png" ->
            [st EXCEPT !.dst = WriteFile(st.dst, FrameName(st.frame_count),
                                         convert_to_bm(PngOf(frame.stem))),
                       !.size = IF st.size = <<>>
                                THEN <<PngOf(frame.stem).w, PngOf(frame.stem).h>>
                                ELSE st.size,
                       !.frame_count = st.frame_count + 1]
      [] frame.kind = "file" /\ frame.ext = "bm" ->
            IF FrameFile(frame.stem, "png") \notin files
            THEN [st EXCEPT !.dst = WriteFile(st.dst, FrameName(st.frame_count),
                                              BmOf(frame.stem)),
                            !.frame_count = st.frame_count + 1]
            ELSE st
      [] OTHER -> st

\* lines 211-212: the generated header
IconHeader(st) ==
    U32LE(st.size[1]) \o U32LE(st.size[2])
        \o U32LE(st.frame_rate[1]) \o U32LE(st.frame_count)

IconFinish(st) ==
    IF st.size # <<>> /\ st.frame_rate # <<>>
    THEN [st EXCEPT !.dst = WriteFile(st.dst, MetaName, IconHeader(st))]
    ELSE st

IconState == [dst |-> iconDst, frame_count |-> frame_count,
              frame_rate |-> frame_rate, size |-> size]

InitIcon ==
    /\ iconSrc \in SUBSET IconFiles
    /\ iconDst = <<>>
    /\ todo = <<>>
    /\ frame_count = 0
    /\ frame_rate = <<>>
    /\ size = <<>>
    /\ ipc = "input"
    /\ CodecIdle /\ FontIdle /\ NameIdle /\ PackIdle

\* lines 186-187: neither marker, nothing is packed
IconSkip ==
    /\ ipc = "input"
    /\ FrameRateFile \notin iconSrc /\ MetaFile \notin iconSrc
    /\ ipc' = "done"
    /\ UNCHANGED <<iconSrc, iconDst, todo, frame_count, frame_rate, size>>
    /\ UNCHANGED <<codecVars, fontVars, nameVars, packVars>>

\* lines 188-193
IconBegin ==
    /\ ipc = "input"
    /\ FrameRateFile \in iconSrc \/ MetaFile \in iconSrc
    /\ todo' = SortedByName(iconSrc)
    /\ frame_count' = 0 /\ frame_rate' = <<>> /\ size' = <<>>
    /\ ipc' = "loop"
    /\ UNCHANGED <<iconSrc, iconDst>>
    /\ UNCHANGED <<codecVars, fontVars, nameVars, packVars>>

IconFrame ==
    /\ ipc = "loop" /\ todo # <<>>
    /\ LET st == IconStep(IconState, Head(todo), iconSrc)
       IN  /\ iconDst' = st.dst
           /\ frame_count' = st.frame_count
           /\ frame_rate' = st.frame_rate
           /\ size' = st.size
    /\ todo' = Tail(todo)
    /\ UNCHANGED <<iconSrc, ipc>>
    /\ UNCHANGED <<codecVars, fontVars, nameVars, packVars>>

IconEnd ==
    /\ ipc = "loop" /\ todo = <<>>
    /\ iconDst' = IconFinish(IconState).dst
    /\ ipc' = "done"
    /\ UNCHANGED <<iconSrc, todo, frame_count, frame_rate, size>>
    /\ UNCHANGED <<codecVars, fontVars, nameVars, packVars>>

NextIcon == IconSkip \/ IconBegin \/ IconFrame \/ IconEnd

SpecIcon == InitIcon /\ [][NextIcon]_vars

-----------------------------------------------------------------------------
(* pack_specific (lines 292-361) and the packers it calls.                  *)
(*                                                                          *)
(* The source pack holds, at most: Anims/manifest.txt naming the anim "A",  *)
(* Anims/A with meta.txt, frame_0.png and frame_0.bm, the static icons      *)
(* Icons/cat/x.png and Icons/cat/x.bmx, the animated icon Icons/cat/ai,    *)
(* and the fonts Fonts/f.c and Fonts/f.u8f.  An entry of a loop of          *)
(* pack_specific or pack_anim is named by its source path.                  *)

ManifestEntry == "Anims/manifest.txt"
AnimEntry == "Anims/A"
AnimMetaEntry == "Anims/A/meta.txt"
AnimPngEntry == "Anims/A/frame_0.png"
AnimBmEntry == "Anims/A/frame_0.bm"
IconPngEntry == "Icons/cat/x.png"
IconBmxEntry == "Icons/cat/x.bmx"
AnimIconEntry == "Icons/cat/ai"
FontCEntry == "Fonts/f.c"
FontU8fEntry == "Fonts/f.u8f"

AnimDirFiles == {AnimMetaEntry, AnimPngEntry, AnimBmEntry}
StaticIconFiles == {IconPngEntry, IconBmxEntry}
FontFiles == {FontCEntry, FontU8fEntry}
SourceFiles == {ManifestEntry} \cup AnimDirFiles \cup StaticIconFiles \cup FontFiles

\* the files of Icons/cat/ai when the directory exists
AnimIconFiles == {FrameRateFile, FrameFile(0, "png"), FrameFile(0, "bm")}

\* the destinations, as paths below output_directory/<pack name>
ManifestPath == <<"Anims", "manifest.txt">>
AnimDirPath == <<"Anims", "A">>
AnimMetaPath == <<"Anims", "A", "meta.txt">>
AnimFramePath == <<"Anims", "A", "frame_0.bm">>
IconDirPath == <<"Icons", "cat">>
IconBmxPath == <<"Icons", "cat", "x.bmx">>
AnimIconPath == <<"Icons", "cat", "ai">>
FontDirPath == <<"Fonts">>
FontU8fPath == <<"Fonts", "f.u8f">>
JunkPath == <<"old.bin">>

\* the contents of the source files
ManifestBytes == <<78, 97, 109, 101, 58, 32, 65, 13, 10>>   \* "Name: A\r\n"
MetaTxtBytes == <<87, 13, 10>>                               \* "W\r\n"
AnimPng == [w |-> 8, h |-> 1, px |-> <<RowOf("stripe", 8)>>]
AnimBmBytes == <<0, 7>>
IconPng == [w |-> 8, h |-> 2, px |-> <<RowOf("white", 8), RowOf("black", 8)>>]
IconBmxBytes == <<8, 0, 0, 0, 1, 0, 0, 0, 0, 9>>
FontSource == [hasStart |-> TRUE, hasEnd |-> TRUE,
               lines |-> <<<<"Q", "B", "1", "Q">>, <<"Q", "1", "Q">>>>]
FontU8fBytes == <<5, 0>>
StaleBytes == <<222>>

\* copy_file_as_lf (lines 163-165): every CR LF becomes LF
RECURSIVE ReplaceCrLf(_)
ReplaceCrLf(bytes) ==
    IF bytes = <<>> THEN <<>>
    ELSE IF Len(bytes) >= 2 /\ bytes[1] = 13 /\ bytes[2] = 10
    THEN <<10>> \o ReplaceCrLf(SubSeq(bytes, 3, Len(bytes)))
    ELSE <<Head(bytes)>> \o ReplaceCrLf(Tail(bytes))

\* lines 321-329: re.finditer(rb"Name: (.*)", manifest), then the
\* replacements and strip() on each captured name
NamePrefix == <<78, 97, 109, 101, 58, 32>>
Whitespace == {9, 10, 11, 12, 13, 32}

RECURSIVE UpToNewline(_)
UpToNewline(bytes) ==
    IF bytes = <<>> \/ Head(bytes) = 10 THEN <<>>
    ELSE <<Head(bytes)>> \o UpToNewline(Tail(bytes))

RECURSIVE StripLeft(_)
StripLeft(bytes) ==
    IF bytes # <<>> /\ Head(bytes) \in Whitespace THEN StripLeft(Tail(bytes)) ELSE bytes

RECURSIVE StripRight(_)
StripRight(bytes) ==
    IF bytes # <<>> /\ bytes[Len(bytes)] \in Whitespace
    THEN StripRight(SubSeq(bytes, 1, Len(bytes) - 1)) ELSE bytes

CleanName(raw) ==
    LET sep(b) == IF b = 92 THEN 47 ELSE IF b = 13 THEN 10 ELSE b
    IN  StripRight(StripLeft([i \in 1..Len(raw) |-> sep(raw[i])]))

RECURSIVE ManifestNames(_)
ManifestNames(bytes) ==
    IF Len(bytes) < Len(NamePrefix) THEN <<>>
    ELSE IF SubSeq(bytes, 1, Len(NamePrefix)) = NamePrefix
    THEN LET raw == UpToNewline(SubSeq(bytes, Len(NamePrefix) + 1, Len(bytes)))
         IN  <<CleanName(raw)>>
                 \o ManifestNames(SubSeq(bytes, Len(NamePrefix) + Len(raw) + 1, Len(bytes)))
    ELSE ManifestNames(Tail(bytes))

\* convert_to_bmx (lines 104-111)
convert_to_bmx(image) == U32LE(image.w) \o U32LE(image.h) \o convert_to_bm(image)

\* pack_icon_animated as one call: the loop over the sorted files, then the header
RECURSIVE IconLoop(_, _, _)
IconLoop(st, files, all) ==
    IF files = <<>> THEN st ELSE IconLoop(IconStep(st, Head(files), all), Tail(files), all)

pack_icon_animated(files) ==
    IconFinish(IconLoop([dst |-> <<>>, frame_count |-> 0, frame_rate |-> <<>>, size |-> <<>>],
                        SortedByName(files), files)).dst

\* what the packers make of the source files above
PackedManifest == ReplaceCrLf(ManifestBytes)
PackedMetaTxt == ReplaceCrLf(MetaTxtBytes)
PackedAnimFrame == convert_to_bm(AnimPng)
PackedIcon == convert_to_bmx(IconPng)
PackedAnimIcon == pack_icon_animated(AnimIconFiles)
PackedFont == pack_font(FontSource).bytes
ManifestAnims == ManifestNames(ManifestBytes)

\* The state a packer works on: [kind, files, dirs, crashed, wrote].
Ancestors(path) == {SubSeq(path, 1, k) : k \in 1..(Len(path) - 1)}

\* mkdir(parents=True, exist_ok=True); it raises when the pack path is a file
Mkdir(st, dir) ==
    IF st.crashed \/ st.kind = "file" THEN [st EXCEPT !.crashed = TRUE]
    ELSE [st EXCEPT !.kind = "dir", !.dirs = @ \cup {dir} \cup Ancestors(dir)]

Write(st, path, bytes) ==
    IF st.crashed THEN st
    ELSE [st EXCEPT !.files = WriteFile(@, path, bytes), !.wrote = @ \cup {path}]

IsFile(st, path) == path \in DOMAIN st.files

\* lines 316-317
pack_manifest(st) ==
    Write(Mkdir(st, <<"Anims">>), ManifestPath, PackedManifest)

\* pack_anim, lines 169-171
pack_anim_begin(st, files) ==
    IF AnimMetaEntry \notin files THEN st ELSE Mkdir(st, AnimDirPath)

\* pack_anim, lines 173-182: one entry of the directory; a variant that
\* copies a .bm frame over an existing file comes first
pack_anim_entry_overwrite(st, entry) ==
    CASE entry = AnimMetaEntry -> Write(st, AnimMetaPath, PackedMetaTxt)
      [] entry = AnimPngEntry  -> Write(st, AnimFramePath, PackedAnimFrame)
      [] entry = AnimBmEntry   -> Write(st, AnimFramePath, AnimBmBytes)

pack_anim_entry(st, entry) ==
    CASE entry = AnimMetaEntry -> Write(st, AnimMetaPath, PackedMetaTxt)
      [] entry = AnimPngEntry  -> Write(st, AnimFramePath, PackedAnimFrame)
      [] entry = AnimBmEntry   -> IF ~IsFile(st, AnimFramePath)
                                  THEN Write(st, AnimFramePath, AnimBmBytes)
                                  ELSE st

\* pack_icon_static (lines 215-221); a variant that copies the .bmx over an
\* existing file comes first
pack_icon_static_overwrite(st, entry) ==
    LET made == Mkdir(st, IconDirPath)
    IN  IF entry = IconPngEntry
        THEN Write(made, IconBmxPath, PackedIcon)
        ELSE Write(made, IconBmxPath, IconBmxBytes)

pack_icon_static(st, entry) ==
    LET made == Mkdir(st, IconDirPath)
    IN  IF entry = IconPngEntry
        THEN Write(made, IconBmxPath, PackedIcon)
        ELSE IF ~IsFile(made, IconBmxPath)
             THEN Write(made, IconBmxPath, IconBmxBytes)
             ELSE made

\* lines 341-343 with pack_icon_animated writing below Icons/cat/ai
RECURSIVE WriteAll(_, _, _, _)
WriteAll(st, dir, names, content) ==
    IF names = {} THEN st
    ELSE LET n == CHOOSE x \in names : TRUE
         IN  WriteAll(Write(st, dir \o n, content[n]), dir, names \ {n}, content)

pack_icon_dir(st, files) ==
    IF FrameRateFile \notin files /\ MetaFile \notin files THEN st
    ELSE LET dst == IF files = AnimIconFiles THEN PackedAnimIcon
                    ELSE pack_icon_animated(files)
         IN  WriteAll(Mkdir(st, AnimIconPath), AnimIconPath, DOMAIN dst, dst)

\* pack_font (lines 224-242) on Fonts/f.c or Fonts/f.u8f; a variant that
\* copies the .u8f over an existing file comes first
pack_font_file_overwrite(st, entry) ==
    LET made == Mkdir(st, FontDirPath)
    IN  IF entry = FontCEntry
        THEN Write(made, FontU8fPath, PackedFont)
        ELSE Write(made, FontU8fPath, FontU8fBytes)

pack_font_file(st, entry) ==
    LET made == Mkdir(st, FontDirPath)
    IN  IF entry = FontCEntry
        THEN Write(made, FontU8fPath, PackedFont)
        ELSE IF ~IsFile(made, FontU8fPath)
             THEN Write(made, FontU8fPath, FontU8fBytes)
             ELSE made

\* what handling one entry does to the output
RunEntry(st, entry, src) ==
    CASE entry = ManifestEntry     -> pack_manifest(st)
      [] entry = AnimEntry         -> pack_anim_begin(st, src.files)
      [] entry \in AnimDirFiles    -> pack_anim_entry(st, entry)
      [] entry \in StaticIconFiles -> pack_icon_static(st, entry)
      [] entry = AnimIconEntry     -> pack_icon_dir(st, src.ai)
      [] entry \in FontFiles       -> pack_font_file(st, entry)

\* the entries that handling one entry brings up: the anims the manifest
\* names, the files of an anim directory that has its meta.txt
Discovered(entry, src) ==
    CASE entry = ManifestEntry ->
            IF \E i \in 1..Len(ManifestAnims) : ManifestAnims[i] = <<65>>
            THEN {AnimEntry} ELSE {}
      [] entry = AnimEntry ->
            IF AnimMetaEntry \in src.files THEN src.files \cap AnimDirFiles ELSE {}
      [] OTHER -> {}

\* the entries the loops of pack_specific start from (lines 315, 334-346, 349-358)
TopEntries(src) ==
    (src.files \cap ({ManifestEntry} \cup StaticIconFiles \cup FontFiles))
        \cup (IF src.ai # {} THEN {AnimIconEntry} ELSE {})

\* the place of an entry in the order of the code: the manifest, the anim,
\* its files, then the icons, then the fonts; entries of one directory come
\* in the order of iterdir(), which is any order
Rank(entry) ==
    CASE entry = ManifestEntry  -> 0
      [] entry = AnimEntry      -> 1
      [] entry \in AnimDirFiles -> 2
      [] entry \in StaticIconFiles \cup {AnimIconEntry} -> 3
      [] entry \in FontFiles    -> 4

CanRun(entry) ==
    /\ entry \in pending
    /\ sched = "code" => \A e \in pending : Rank(e) >= Rank(entry)

PackState == [kind |-> packedKind, files |-> packedFiles, dirs |-> packedDirs,
              crashed |-> FALSE, wrote |-> {}]

Restrict(f, keep) == [q \in keep |-> f[q]]

DirsOf(paths) == UNION {Ancestors(q) : q \in paths}

\* the source packs
AnimSources ==
    { {} , {ManifestEntry}, {ManifestEntry, AnimPngEntry, AnimBmEntry} }
        \cup { {ManifestEntry, AnimMetaEntry} \cup fr : fr \in SUBSET {AnimPngEntry, AnimBmEntry} }

SourcePacks ==
    { [isDir |-> TRUE, files |-> a \cup i \cup f, ai |-> d] :
          a \in AnimSources, i \in SUBSET StaticIconFiles,
          f \in SUBSET FontFiles, d \in {{}, AnimIconFiles} }

\* what output_directory/<pack name> may hold before a run: files of an
\* earlier pack at the passthrough destinations, and a file of no asset
StalePaths == {AnimFramePath, IconBmxPath, FontU8fPath, JunkPath}

InitOutput(kinds) ==
    /\ packedKind \in kinds
    /\ packedFiles \in IF packedKind = "dir"
                       THEN {[q \in keep |-> StaleBytes] : keep \in SUBSET StalePaths}
                       ELSE {<<>>}
    /\ packedDirs = DirsOf(DOMAIN packedFiles)

InitPackCommon ==
    /\ plog = {}
    /\ run = "first"
    /\ rmFailed = FALSE
    /\ tree1 = <<>>
    /\ writers = <<>>
    /\ CodecIdle /\ FontIdle /\ NameIdle /\ IconIdle

InitPack ==
    /\ srcPack \in SourcePacks \cup {[isDir |-> FALSE, files |-> {}, ai |-> {}]}
    /\ InitOutput({"absent", "file", "dir"})
    /\ ppc = "start"
    /\ pending = {}
    /\ sched = "code"
    /\ preOut = <<>>
    /\ rmOut = <<>>
    /\ InitPackCommon

otherVars == <<codecVars, fontVars, nameVars, iconVars>>

\* lines 296-300
PackNotDir ==
    /\ ppc = "start" /\ ~srcPack.isDir
    /\ plog' = plog \cup {"Packing asset pack", "Error: not a directory"}
    /\ ppc' = "done"
    /\ UNCHANGED <<srcPack, packedKind, packedFiles, packedDirs, pending, sched,
                   run, preOut, rmOut, rmFailed, tree1, writers, otherVars>>

\* lines 296-302
PackStart ==
    /\ ppc = "start" /\ srcPack.isDir
    /\ plog' = plog \cup {"Packing asset pack"}
    /\ preOut' = packedFiles
    /\ rmFailed' = FALSE
    /\ writers' = <<>>
    /\ ppc' = "remove"
    /\ UNCHANGED <<srcPack, packedKind, packedFiles, packedDirs, pending, sched,
                   run, rmOut, tree1, otherVars>>

\* lines 304-312: nothing to remove, or the removal succeeds
RemoveStale ==
    /\ ppc = "remove"
    /\ packedKind' = "absent"
    /\ packedFiles' = <<>>
    /\ packedDirs' = {}
    /\ rmOut' = <<>>
    /\ pending' = TopEntries(srcPack)
    /\ ppc' = "pack"
    /\ UNCHANGED <<srcPack, plog, sched, run, preOut, rmFailed, tree1, writers, otherVars>>

\* line 307: rmtree(ignore_errors=True) could not remove everything; it
\* raises nothing, so nothing reaches the except clause
RemoveTreeFails ==
    /\ ppc = "remove" /\ packedKind = "dir"
    /\ \E keep \in SUBSET (DOMAIN packedFiles) :
           /\ packedFiles' = Restrict(packedFiles, keep)
           /\ packedDirs' = DirsOf(keep)
    /\ rmOut' = packedFiles'
    /\ rmFailed' = TRUE
    /\ pending' = TopEntries(srcPack)
    /\ ppc' = "pack"
    /\ UNCHANGED <<srcPack, packedKind, plog, sched, run, preOut, tree1, writers, otherVars>>

\* lines 309-312: unlink raises, the except clause logs
RemoveFileFails ==
    /\ ppc = "remove" /\ packedKind = "file"
    /\ plog' = plog \cup {"Failed to remove existing pack"}
    /\ rmOut' = packedFiles
    /\ rmFailed' = TRUE
    /\ pending' = TopEntries(srcPack)
    /\ ppc' = "pack"
    /\ UNCHANGED <<srcPack, packedKind, packedFiles, packedDirs, sched, run, preOut,
                   tree1, writers, otherVars>>

EntryLog(entry) ==
    CASE entry = ManifestEntry -> {}
      [] entry = AnimEntry -> {"Compiling anim"}
      [] entry \in AnimDirFiles -> {}
      [] entry \in StaticIconFiles \cup {AnimIconEntry} -> {"Compiling icon"}
      [] entry \in FontFiles -> {"Compiling font"}

\* one entry of a loop of lines 314-358
RunOne ==
    /\ ppc = "pack"
    /\ \E entry \in pending :
        /\ CanRun(entry)
        /\ \E st \in {RunEntry(PackState, entry, srcPack)} :
               /\ packedKind' = st.kind
               /\ packedFiles' = st.files
               /\ packedDirs' = st.dirs
               /\ ppc' = IF st.crashed THEN "crashed" ELSE "pack"
               /\ writers' = [q \in (DOMAIN writers) \cup st.wrote |->
                                (IF q \in DOMAIN writers THEN writers[q] ELSE {})
                                    \cup (IF q \in st.wrote THEN {entry} ELSE {})]
        /\ pending' = (pending \ {entry}) \cup Discovered(entry, srcPack)
        /\ plog' = plog \cup EntryLog(entry)
    /\ UNCHANGED <<srcPack, sched, run, preOut, rmOut, rmFailed, tree1, otherVars>>

\* lines 360-361
PackFinish ==
    /\ ppc = "pack" /\ pending = {}
    /\ plog' = plog \cup {"Finished packing", "Saved to"}
    /\ ppc' = "done"
    /\ UNCHANGED <<srcPack, packedKind, packedFiles, packedDirs, pending, sched,
                   run, preOut, rmOut, rmFailed, tree1, writers, otherVars>>

Tree == [kind |-> packedKind, files |-> packedFiles, dirs |-> packedDirs]

\* pack_specific is called again on the unchanged source
SecondRun ==
    /\ ppc = "done" /\ run = "first" /\ srcPack.isDir
    /\ tree1' = Tree
    /\ run' = "second"
    /\ plog' = {}
    /\ ppc' = "start"
    /\ UNCHANGED <<srcPack, packedKind, packedFiles, packedDirs, pending, sched,
                   preOut, rmOut, rmFailed, writers, otherVars>>

\* a filesystem on which removals succeed; two runs
NextPack == PackNotDir \/ PackStart \/ RemoveStale \/ RunOne \/ PackFinish \/ SecondRun

SpecPack == InitPack /\ [][NextPack]_vars

\* a filesystem on which the removal of the stale output may fail; one run
NextPackFault ==
    \/ PackNotDir \/ PackStart \/ RemoveStale \/ RemoveTreeFails \/ RemoveFileFails
    \/ RunOne \/ PackFinish

SpecPackFault == InitPack /\ [][NextPackFault]_vars

\* the entries of one pack as independent tasks, run one at a time in any
\* order, after the stale-output removal
InitTasks ==
    /\ srcPack \in SourcePacks
    /\ InitOutput({"absent", "dir"})
    /\ ppc = "pack"
    /\ pending = TopEntries(srcPack)
    /\ sched = "any"
    /\ preOut = packedFiles
    /\ rmOut = packedFiles
    /\ InitPackCommon

NextTasks == RunOne \/ PackFinish

SpecTasks == InitTasks /\ [][NextTasks]_vars

-----------------------------------------------------------------------------
(* Claims about the codec *)

Untampered == tamper = "none"

\* C1: decoding what convert_to_bm produced, with the raster's own width and
\* height, ends without error and returns the raster pixel for pixel, for
\* every width (multiples of 8 or not) and both framings.
C1_RoundTrip ==
    (cpc = "decoded" /\ Untampered) =>
        (rec.kind = "image" /\ rec.px = img.px)

RawFraming(r) == <<0>> \o r
CompressedFraming(c) == <<1, 0>> \o U16LE(Len(c)) \o c

\* C2 as stated: the compressed framing is returned iff
\* 3 + len(c) < 1 + len(r), the raw framing otherwise.
C2_AsStated ==
    (cpc = "encoded" /\ Untampered) =>
        LET r == XbmBytes(img)
            c == HsCompress(r)
        IN  bm = IF 3 + Len(c) < 1 + Len(r)
                 THEN CompressedFraming(c) ELSE RawFraming(r)

\* C2 amended: the compressed framing is returned iff the whole compressed
\* output (flag pair, length prefix, c) is shorter than the whole raw output,
\* that is iff 4 + len(c) < 1 + len(r); the raw framing otherwise.
C2_FramingChoice ==
    (cpc = "encoded" /\ Untampered) =>
        LET r == XbmBytes(img)
            c == HsCompress(r)
        IN  bm = IF 4 + Len(c) < 1 + Len(r)
                 THEN CompressedFraming(c) ELSE RawFraming(r)

\* an encode that chose the compressed framing
C2_Witness ==
    cpc = "encoded" /\ Untampered /\ StartsCompressed(bm)

\* the length the payload of a w-by-h image has (line 120)
ExpectedLength(w, h) == (w * h + 7) \div 8

\* C6: recover_png_from_bm returns an image only when the length of the
\* unpacked payload agrees with w*h; a truncated or over-long payload ends
\* in an error.
C6_RejectsMalformed ==
    (cpc = "decoded" /\ rec.kind = "image") =>
        Len(DataDec(bm)) = ExpectedLength(img.w, img.h)

-----------------------------------------------------------------------------
(* Claims about the font extractor *)

\* The literals of a line as C reads it: a quote opens a literal, inside it a
\* backslash takes the next character with it, the next bare quote closes it.
\* [n, first, open]: the number of closed literals, the content of the first
\* one, and whether the line ends inside a literal.
RECURSIVE ScanLiterals(_, _, _, _, _)
ScanLiterals(line, i, inside, start, acc) ==
    IF i > Len(line) THEN [n |-> acc.n, first |-> acc.first, open |-> inside]
    ELSE IF ~inside
    THEN ScanLiterals(line, i + 1, line[i] = "Q", i + 1, acc)
    ELSE IF line[i] = "B" THEN ScanLiterals(line, i + 2, TRUE, start, acc)
    ELSE IF line[i] = "Q"
    THEN ScanLiterals(line, i + 1, FALSE, 0,
             [n |-> acc.n + 1,
              first |-> IF acc.n = 0 THEN SubSeq(line, start, i - 1) ELSE acc.first])
    ELSE ScanLiterals(line, i + 1, TRUE, start, acc)

Literals(line) == ScanLiterals(line, 1, FALSE, 0, [n |-> 0, first |-> <<>>])

\* the line contains exactly one quoted string literal
Significant(line) == Literals(line).n = 1 /\ ~Literals(line).open

\* the line is C text: every literal it opens is closed
ClosedLine(line) == ~Literals(line).open

RECURSIVE SignificantBytes(_)
SignificantBytes(lines) ==
    IF lines = <<>> THEN <<>>
    ELSE (IF Significant(Head(lines))
          THEN DecodeEscapes(Literals(Head(lines)).first).bytes ELSE <<>>)
         \o SignificantBytes(Tail(lines))

\* C5: for a source with the start marker (and a declaration that ends, and
\* lines whose literals are all closed), the .u8f written is the decoded
\* bytes of every line holding exactly one quoted string literal, in line
\* order, then one 0x00.
C5_FontExtraction ==
    (/\ fpc = "done"
     /\ fontSrc.hasStart /\ fontSrc.hasEnd
     /\ \A i \in 1..Len(fontSrc.lines) : ClosedLine(fontSrc.lines[i]))
    => fontOut = [kind |-> "written",
                  bytes |-> SignificantBytes(fontSrc.lines) \o <<0>>]

-----------------------------------------------------------------------------
(* Claims about create_asset_pack *)

HasIllegalChar(s) == \E i \in 1..Len(s) : s[i] \notin LegalChars

\* C8: a name holding a character outside letters, digits, underscore,
\* hyphen and space is reported through the logger and nothing is created.
C8_NameValidation ==
    (npc = "done" /\ HasIllegalChar(name)) =>
        (/\ fs = fsBefore
         /\ "Error: contains illegal characters" \in nlog)

-----------------------------------------------------------------------------
(* Claims about pack_icon_animated *)

\* the stems supplied as .png or as .bm, each once
SuppliedStems ==
    {s \in Stems : FrameFile(s, "png") \in iconSrc \/ FrameFile(s, "bm") \in iconSrc}

\* the k-th (from 0) supplied stem in the order of the sorted names
RECURSIVE StemAt(_, _)
StemAt(stems, k) ==
    LET least == CHOOSE s \in stems : \A t \in stems : s <= t
    IN  IF k = 0 THEN least ELSE StemAt(stems \ {least}, k - 1)

PackedFrame(s) ==
    IF FrameFile(s, "png") \in iconSrc THEN convert_to_bm(PngOf(s)) ELSE BmOf(s)

\* C9: with a marker in the source and a fresh destination, the frame files
\* written are exactly frame_00.bm .. frame_(n-1).bm, in sorted source-name
\* order, n being the number of distinct frames supplied as .png or .bm; and
\* the frame_count field of a generated header is n.
C9_FrameCounter ==
    (ipc = "done" /\ (FrameRateFile \in iconSrc \/ MetaFile \in iconSrc)) =>
        LET n == Cardinality(SuppliedStems)
        IN  /\ (DOMAIN iconDst) \ {MetaName} = {FrameName(k) : k \in 0..(n - 1)}
            /\ \A k \in 0..(n - 1) :
                   iconDst[FrameName(k)] = PackedFrame(StemAt(SuppliedStems, k))
            /\ (size # <<>> /\ frame_rate # <<>>) =>
                   /\ MetaName \in DOMAIN iconDst
                   /\ Len(iconDst[MetaName]) = 16
                   /\ SubSeq(iconDst[MetaName], 13, 16) = U32LE(n)

\* a finished run that met a frame in both forms and wrote the header
C9_Witness ==
    /\ ipc = "done"
    /\ \E s \in Stems : FrameFile(s, "png") \in iconSrc /\ FrameFile(s, "bm") \in iconSrc
    /\ Cardinality(SuppliedStems) >= 2
    /\ size # <<>> /\ frame_rate # <<>>
    /\ MetaName \in DOMAIN iconDst

-----------------------------------------------------------------------------
(* Claims about pack_specific *)

\* the passthrough assets, the form generated from a source, and where both go
Passthrough == {AnimBmEntry, IconBmxEntry, FontU8fEntry}

DestOf(entry) ==
    CASE entry \in {AnimBmEntry, AnimPngEntry}  -> AnimFramePath
      [] entry \in {IconBmxEntry, IconPngEntry} -> IconBmxPath
      [] entry \in {FontU8fEntry, FontCEntry}   -> FontU8fPath

SourceBytes(entry) ==
    CASE entry = AnimBmEntry  -> AnimBmBytes
      [] entry = IconBmxEntry -> IconBmxBytes
      [] entry = FontU8fEntry -> FontU8fBytes

GeneratedForm(entry) ==
    CASE entry = AnimBmEntry  -> AnimPngEntry
      [] entry = IconBmxEntry -> IconPngEntry
      [] entry = FontU8fEntry -> FontCEntry

GeneratedBytes(entry) ==
    CASE entry = AnimBmEntry  -> PackedAnimFrame
      [] entry = IconBmxEntry -> PackedIcon
      [] entry = FontU8fEntry -> PackedFont

\* the entry is a file of the source that pack_specific reaches
IsPacked(entry) ==
    /\ srcPack.isDir
    /\ entry \in srcPack.files
    /\ entry \in AnimDirFiles => {ManifestEntry, AnimMetaEntry} \subseteq srcPack.files

\* the destination held other bytes than the source file when the run started
SeededBefore(entry) ==
    /\ IsPacked(entry)
    /\ DestOf(entry) \in DOMAIN preOut
    /\ preOut[DestOf(entry)] # SourceBytes(entry)

\* C3 as stated: a file found at the destination of a passthrough asset, with
\* bytes other than the source's, holds its pre-run bytes after the run.
C3_AsStated ==
    ppc = "done" =>
        \A e \in Passthrough :
            SeededBefore(e) =>
                /\ DestOf(e) \in DOMAIN packedFiles
                /\ packedFiles[DestOf(e)] = preOut[DestOf(e)]

\* C3 amended: after the run the destination holds the bytes generated from
\* the .png / .c form when the source has it; otherwise its pre-run bytes if
\* the stale-output removal left the file in place, and the bytes of the
\* source passthrough file if the removal deleted it.
C3_PassthroughAfterRun ==
    ppc = "done" =>
        \A e \in Passthrough :
            SeededBefore(e) =>
                /\ DestOf(e) \in DOMAIN packedFiles
                /\ packedFiles[DestOf(e)] =
                       IF IsPacked(GeneratedForm(e)) THEN GeneratedBytes(e)
                       ELSE IF DestOf(e) \in DOMAIN rmOut THEN preOut[DestOf(e)]
                       ELSE SourceBytes(e)

\* a run whose removal failed and left a seeded passthrough file, which the
\* packer then met and kept
C3_Witness ==
    /\ ppc = "done" /\ rmFailed
    /\ \E e \in Passthrough :
           /\ SeededBefore(e) /\ ~IsPacked(GeneratedForm(e))
           /\ DestOf(e) \in DOMAIN rmOut
           /\ packedFiles[DestOf(e)] = StaleBytes

\* C4: a second run on the unchanged source leaves the same paths with the
\* same bytes as the first run left.
C4_IdempotentRerun ==
    (run = "second" /\ ppc = "done") => Tree = tree1

\* a second run finished on a source that has an icon in both forms
C4_Witness ==
    /\ run = "second" /\ ppc = "done"
    /\ StaticIconFiles \subseteq srcPack.files
    /\ IconBmxPath \in DOMAIN packedFiles

\* C7: a failed removal of the stale output is reported through the logger
\* and the run goes on to the packing phases; nothing is written into the
\* pack's subtree before the removal was attempted.
C7_RemovalReported ==
    /\ rmFailed => "Failed to remove existing pack" \in plog
    /\ rmFailed => ppc # "crashed"
    /\ ppc \in {"start", "remove"} => DOMAIN writers = {}

\* C10 as stated: no two entries write the same destination path (and so
\* the tree does not depend on their order).
C10_AsStated ==
    \A q \in DOMAIN writers : Cardinality(writers[q]) <= 1

\* the files a pack leaves, from its source and from the files the removal
\* left behind
FormsOf(e) == {e, GeneratedForm(e)}

ExpectedAt(q, base) ==
    LET fromForms(e) ==
            IF IsPacked(GeneratedForm(e)) THEN <<GeneratedBytes(e)>>
            ELSE IF q \in DOMAIN base THEN <<base[q]>>
            ELSE IF IsPacked(e) THEN <<SourceBytes(e)>>
            ELSE <<>>
        kept == IF q \in DOMAIN base THEN <<base[q]>> ELSE <<>>
    IN  CASE q = ManifestPath ->
                IF IsPacked(ManifestEntry) THEN <<PackedManifest>> ELSE kept
          [] q = AnimMetaPath ->
                IF IsPacked(AnimMetaEntry) THEN <<PackedMetaTxt>> ELSE kept
          [] q = AnimFramePath -> fromForms(AnimBmEntry)
          [] q = IconBmxPath   -> fromForms(IconBmxEntry)
          [] q = FontU8fPath   -> fromForms(FontU8fEntry)
          [] \E n \in DOMAIN PackedAnimIcon : q = AnimIconPath \o n ->
                IF srcPack.ai # {}
                THEN <<PackedAnimIcon[SubSeq(q, Len(AnimIconPath) + 1, Len(q))]>>
                ELSE kept
          [] OTHER -> kept

AllPaths ==
    {ManifestPath, AnimMetaPath, AnimFramePath, IconBmxPath, FontU8fPath, JunkPath}
        \cup {AnimIconPath \o n : n \in DOMAIN PackedAnimIcon}

ExpectedFiles(base) ==
    LET present == {q \in AllPaths : ExpectedAt(q, base) # <<>>}
    IN  [q \in present |-> ExpectedAt(q, base)[1]]

\* C10 amended: the two forms of one asset go to the same destination, every
\* other pair of entries writes disjoint paths; with the entries run one at
\* a time, in any order, the generated form wins and the final files are
\* the same for every order.
C10_OrderIndependent ==
    /\ \A q \in DOMAIN writers :
           \/ Cardinality(writers[q]) <= 1
           \/ \E e \in Passthrough : q = DestOf(e) /\ writers[q] = FormsOf(e)
    /\ ppc = "done" => packedFiles = ExpectedFiles(rmOut)

\* a finished pack in which both forms of one asset wrote the same path
C10_Witness ==
    /\ ppc = "done" /\ sched = "any"
    /\ \E q \in DOMAIN writers : Cardinality(writers[q]) = 2

=============================================================================
